---- MODULE Spec2Model ----
(***************************************************************************)
(* PeerMeet: the peer mesh session manager of components/VideoRoom.tsx.    *)
(*                                                                         *)
(* One VideoRoom component instance (the local participant "A") is         *)
(* modelled in full.  The browser (media devices, timers, BroadcastChannel)*)
(* and the PeerJS transport are the environment: they deliver events and   *)
(* outcomes in any order.                                                  *)
(*                                                                         *)
(* The effect of lines 85-452 is a closure: it reads localStream,          *)
(* screenShareStream and peer as they were in the render that created it.  *)
(* The variable `closure` holds those captured values for every run of the *)
(* effect; a run starts at mount and whenever a dependency of line 452     *)
(* changes.                                                                *)
(***************************************************************************)
EXTENDS Integers, Sequences, FiniteSets, TLC

\* ------------------------------------------------------------- bounds
MaxRuns == 2        \* runs of the effect (the mount plus dependency changes)
MaxCalls == 2       \* calls answered or dialled by discovery in one behaviour
MaxTracks == 3      \* camera tracks acquired in one behaviour
MaxShares == 1      \* display captures acquired in one behaviour
MaxScreenCalls == 2 \* calls originated by toggleScreenShare in one behaviour

Runs == 1..MaxRuns
\* Remote peer identities (the spec's peers B and C).
Remotes == {"B", "C"}
\* The identity the transport assigns to the Peer object of effect run g.
SelfId(g) == "A" \o ToString(g)
Ids == Remotes \cup {SelfId(g) : g \in Runs}
\* Room identifiers: the empty one (line 47, 82) and a valid one.
Rooms == {"", "r1"}

NoStream == 0       \* null MediaStream / null Peer / absent registry entry
NoTrack == 0        \* sender.track === null
ScreenMedia == -1   \* a call that carries the display-capture stream

VARIABLES
    \* --- component state (useState, lines 51-65)
    peer,               \* 0, or the run whose Peer object is in state
    localStream,        \* 0, or the run whose capture stream is in state
    remoteStreams,      \* the entries {id, stream}: <<call.peer, connection that delivered it>>
    screenShareStream,  \* 0, or the id of the display-capture stream in state
    isAudioEnabled, isVideoEnabled, isVideoLoading,
    isScreenSharing, isAnnotating,
    participantCount, connectionStatus, errorMessage,
    \* --- refs (lines 68, 73)
    cleanupFunctionsRef, \* set of <<kind, run>>: cleanup closures pushed at open
    connections,         \* the Registry: peer id -> index into calls, 0 if absent
    \* --- the component and its effect
    mounted,            \* FALSE once React has unmounted the component
    actualRoomId,
    run,                \* the current run of the effect
    closure,            \* run -> values of localStream/screenShareStream/peer it captured
    initPc,             \* run -> position of initPeer
    \* --- environment objects
    transport,          \* run -> state of the Peer object created by that run
    listener,           \* run -> the listener's BroadcastChannel is open
    announcer,          \* run -> the announcer's interval and channel are live
    calls,              \* sequence of MediaConnection objects
    videoTracks,        \* run -> sequence of video track ids in that run's capture stream
    audioTrack,         \* run -> "none" | "enabled" | "disabled"
    stoppedTracks,      \* video track ids on which stop() was called
    stoppedAudio,       \* runs whose audio track was stopped
    nTracks,            \* video tracks acquired so far
    nShares,            \* display-capture streams acquired so far
    liveShares,         \* live tracks of the display captures: <<stream, kind>>
    videoReq,           \* 0, or the localStream a pending toggleVideo captured
    shareReq,           \* -1, or the peer a pending toggleScreenShare captured
    timers,             \* pending advisory auto-clear timeouts
    log                 \* the steps <<name, argument>> of the last handler, where a
                        \* property needs them; a toggleVideo that directly follows
                        \* another toggleVideo continues its log

state == <<peer, localStream, remoteStreams, screenShareStream, isAudioEnabled,
           isVideoEnabled, isVideoLoading, isScreenSharing, isAnnotating,
           participantCount, connectionStatus, errorMessage>>
refs == <<cleanupFunctionsRef, connections>>
effect == <<mounted, actualRoomId, run, closure, initPc>>
discovery == <<listener, announcer>>
media == <<videoTracks, audioTrack, stoppedTracks, stoppedAudio, nTracks,
           nShares, liveShares>>
pending == <<videoReq, shareReq, timers>>
vars == <<state, refs, effect, transport, discovery, calls, media, pending, log>>

\* ------------------------------------------------------------ helpers
Max(a, b) == IF a >= b THEN a ELSE b

\* A state setter: React drops updates of an unmounted component.
Set(old, new) == IF mounted THEN new ELSE old

NoClosure == [localStream |-> NoStream, screenShareStream |-> NoStream, peer |-> 0]

\* Members of a sequence.
Range(s) == {s[i] : i \in 1..Len(s)}

\* ------------------------------------------------------------ initial state
\* Mount: the first render (lines 51-65), then the effect runs (lines 85-96, 413).
Init ==
    /\ peer = 0 /\ localStream = NoStream /\ remoteStreams = {}
    /\ screenShareStream = NoStream
    /\ isAudioEnabled = TRUE /\ isVideoEnabled = TRUE /\ isVideoLoading = FALSE
    /\ isScreenSharing = FALSE /\ isAnnotating = FALSE
    /\ participantCount = 1
    /\ actualRoomId \in Rooms
    /\ connectionStatus = IF actualRoomId = "" THEN "error" ELSE "connecting"
    /\ errorMessage = IF actualRoomId = "" THEN "Room ID is missing" ELSE ""
    /\ cleanupFunctionsRef = {}
    /\ connections = [p \in Ids |-> 0]
    /\ mounted = TRUE /\ run = 1
    /\ closure = [g \in Runs |-> NoClosure]
    /\ initPc = [g \in Runs |-> IF g = 1 /\ actualRoomId # "" THEN "av" ELSE "idle"]
    /\ transport = [g \in Runs |-> "none"]
    /\ listener = [g \in Runs |-> FALSE]
    /\ announcer = [g \in Runs |-> FALSE]
    /\ calls = <<>>
    /\ videoTracks = [g \in Runs |-> <<>>]
    /\ audioTrack = [g \in Runs |-> "none"]
    /\ stoppedTracks = {} /\ stoppedAudio = {} /\ nTracks = 0
    /\ nShares = 0 /\ liveShares = {}
    /\ videoReq = 0 /\ shareReq = -1 /\ timers = {}
    /\ log = <<>>

\* ------------------------------------------------------------ initPeer
\* Lines 140-152, 242: setLocalStream(stream), new Peer(...), setPeer(newPeer).
\* The handlers of lines 154-240 are registered on the new Peer object.
StartTransport(g) ==
    /\ localStream' = Set(localStream, g)
    /\ peer' = Set(peer, g)
    /\ transport' = [transport EXCEPT ![g] = "new"]
    /\ initPc' = [initPc EXCEPT ![g] = "done"]

\* Lines 104-107: getUserMedia({video, audio}) resolves.
AcquireAudioVideo(g) ==
    /\ initPc[g] = "av"
    /\ nTracks < MaxTracks
    /\ nTracks' = nTracks + 1
    /\ videoTracks' = [videoTracks EXCEPT ![g] = <<nTracks + 1>>]
    /\ audioTrack' = [audioTrack EXCEPT ![g] = "enabled"]
    /\ StartTransport(g)
    /\ log' = <<>>
    /\ UNCHANGED <<remoteStreams, screenShareStream, isAudioEnabled, isVideoEnabled,
                   isVideoLoading, isScreenSharing, isAnnotating, participantCount,
                   connectionStatus, errorMessage, refs, mounted, actualRoomId, run,
                   closure, discovery, calls, stoppedTracks, stoppedAudio,
                   nShares, liveShares, pending>>

\* Lines 108-115: the request fails with NotReadableError or AbortError; the
\* audio-only request is issued.
CameraBusy(g) ==
    /\ initPc[g] = "av"
    /\ initPc' = [initPc EXCEPT ![g] = "audio"]
    /\ log' = <<>>
    /\ UNCHANGED <<state, refs, mounted, actualRoomId, run, closure, transport,
                   discovery, calls, media, pending>>

\* Lines 131-137 and the outer catch of lines 243-247: any other error.
MediaDenied(g) ==
    /\ initPc[g] = "av"
    /\ initPc' = [initPc EXCEPT ![g] = "failed"]
    /\ errorMessage' = Set(errorMessage, "Failed to initialize video chat")
    /\ connectionStatus' = Set(connectionStatus, "error")
    /\ log' = <<>>
    /\ UNCHANGED <<peer, localStream, remoteStreams, screenShareStream, isAudioEnabled,
                   isVideoEnabled, isVideoLoading, isScreenSharing, isAnnotating,
                   participantCount, refs, mounted, actualRoomId, run, closure,
                   transport, discovery, calls, media, pending>>

CameraBusyMsg == "Camera is in use by another application. Using audio only mode."

\* The retry without the setIsVideoEnabled(false) of line 119.
VideoEnabledKept == isVideoEnabled

\* Line 119: the audio-only session reports video disabled.
VideoEnabledAfterAudioOnly == FALSE

\* Lines 115-120: the audio-only request resolves.
AcquireAudioOnly(g) ==
    /\ initPc[g] = "audio"
    /\ audioTrack' = [audioTrack EXCEPT ![g] = "enabled"]
    /\ isVideoEnabled' = Set(isVideoEnabled, VideoEnabledAfterAudioOnly)
    /\ errorMessage' = Set(errorMessage, CameraBusyMsg)
    /\ StartTransport(g)
    /\ log' = <<>>
    /\ UNCHANGED <<remoteStreams, screenShareStream, isAudioEnabled, isVideoLoading,
                   isScreenSharing, isAnnotating, participantCount, connectionStatus,
                   refs, mounted, actualRoomId, run, closure, discovery, calls,
                   videoTracks, stoppedTracks, stoppedAudio, nTracks, nShares,
                   liveShares, pending>>

\* The retry's failure handled like the fatal branch of lines 131-137, 243-247.
AudioFailureIsFatal(g) ==
    /\ initPc[g] = "audio"
    /\ initPc' = [initPc EXCEPT ![g] = "failed"]
    /\ errorMessage' = Set(errorMessage, "Failed to initialize video chat")
    /\ connectionStatus' = Set(connectionStatus, "error")
    /\ log' = <<>>
    /\ UNCHANGED <<peer, localStream, remoteStreams, screenShareStream, isAudioEnabled,
                   isVideoEnabled, isVideoLoading, isScreenSharing, isAnnotating,
                   participantCount, refs, mounted, actualRoomId, run, closure,
                   transport, discovery, calls, media, pending>>

\* Lines 121-130: the audio-only request fails too; an empty MediaStream is used.
ViewOnlyFallback(g) ==
    /\ initPc[g] = "audio"
    /\ isAudioEnabled' = Set(isAudioEnabled, FALSE)
    /\ isVideoEnabled' = Set(isVideoEnabled, FALSE)
    /\ errorMessage' = Set(errorMessage,
           "Could not access camera or microphone. Joining in view-only mode.")
    /\ connectionStatus' = Set(connectionStatus, "connected")
    /\ StartTransport(g)
    /\ log' = <<>>
    /\ UNCHANGED <<remoteStreams, screenShareStream, isVideoLoading, isScreenSharing,
                   isAnnotating, participantCount, refs, mounted, actualRoomId, run,
                   closure, discovery, calls, media, pending>>

\* ------------------------------------------------------------ transport events
\* Lines 372-375: the message sendAnnouncement posts; myPeerId is the id the
\* open event assigned (line 167).
JoinAnnouncement(g) == <<"announce", SelfId(g), "join">>

\* An open handler that treats a channel it cannot create as a session error.
PeerOpenChannelFatal(g, listenOk, announceOk) ==
    /\ transport[g] = "new"
    /\ transport' = [transport EXCEPT ![g] = "open"]
    /\ connectionStatus' = Set(connectionStatus,
           IF listenOk /\ announceOk THEN "connected" ELSE "error")
    /\ listener' = [listener EXCEPT ![g] = listenOk]
    /\ announcer' = [announcer EXCEPT ![g] = announceOk]
    /\ cleanupFunctionsRef' = cleanupFunctionsRef
           \cup (IF listenOk THEN {<<"listener", g>>} ELSE {})
           \cup (IF announceOk THEN {<<"announcer", g>>} ELSE {})
    /\ log' = IF announceOk THEN <<JoinAnnouncement(g)>> ELSE <<>>
    /\ UNCHANGED <<peer, localStream, remoteStreams, screenShareStream, isAudioEnabled,
                   isVideoEnabled, isVideoLoading, isScreenSharing, isAnnotating,
                   participantCount, errorMessage, connections, effect, calls, media,
                   pending>>

\* Lines 154-172: newPeer.on("open").  listenOk / announceOk: whether
\* new BroadcastChannel(...) succeeded in listenForPeersInRoom (line 258) and
\* announcePeerInRoom (line 367); on failure the function returns null
\* (lines 340-343, 388-391) and nothing is pushed.  announcePeerInRoom sends the
\* first announcement at once (line 384) and starts the interval (line 387).
PeerOpen(g, listenOk, announceOk) ==
    /\ transport[g] = "new"
    /\ transport' = [transport EXCEPT ![g] = "open"]
    /\ connectionStatus' = Set(connectionStatus, "connected")
    /\ listener' = [listener EXCEPT ![g] = listenOk]
    /\ announcer' = [announcer EXCEPT ![g] = announceOk]
    /\ cleanupFunctionsRef' = cleanupFunctionsRef
           \cup (IF listenOk THEN {<<"listener", g>>} ELSE {})
           \cup (IF announceOk THEN {<<"announcer", g>>} ELSE {})
    /\ log' = IF announceOk THEN <<JoinAnnouncement(g)>> ELSE <<>>
    /\ UNCHANGED <<peer, localStream, remoteStreams, screenShareStream, isAudioEnabled,
                   isVideoEnabled, isVideoLoading, isScreenSharing, isAnnotating,
                   participantCount, errorMessage, connections, effect, calls, media,
                   pending>>

\* The handler without the setConnectionStatus("error") of line 234.
PeerErrorKeepsStatus ==
    /\ errorMessage' = Set(errorMessage, "Connection error")
    /\ connectionStatus' = connectionStatus

\* Lines 231-235: newPeer.on("error").
PeerErrorHandler ==
    /\ errorMessage' = Set(errorMessage, "Connection error")
    /\ connectionStatus' = Set(connectionStatus, "error")

PeerError(g) ==
    /\ transport[g] \in {"new", "open", "disconnected"}
    /\ PeerErrorHandler
    /\ log' = <<>>
    /\ UNCHANGED <<peer, localStream, remoteStreams, screenShareStream, isAudioEnabled,
                   isVideoEnabled, isVideoLoading, isScreenSharing, isAnnotating,
                   participantCount, refs, effect, transport, discovery, calls, media,
                   pending>>

\* Lines 237-240: newPeer.on("disconnected"): the link to the signalling server is lost.
PeerDisconnected(g) ==
    /\ transport[g] = "open"
    /\ transport' = [transport EXCEPT ![g] = "disconnected"]
    /\ connectionStatus' = Set(connectionStatus, "disconnected")
    /\ log' = <<>>
    /\ UNCHANGED <<peer, localStream, remoteStreams, screenShareStream, isAudioEnabled,
                   isVideoEnabled, isVideoLoading, isScreenSharing, isAnnotating,
                   participantCount, errorMessage, refs, effect, discovery, calls,
                   media, pending>>

\* ------------------------------------------------------------ discovery
\* The join announcements a listener of the room can receive: those of other
\* participants, and those of this component's own announcers (lines 370-387):
\* a BroadcastChannel delivers a message to every other channel object of the
\* same name, and the listener's channel is another object than the announcer's.
Announced(p) == p \in Remotes \/ \E h \in Runs : announcer[h] /\ p = SelfId(h)

\* Line 387: the interval of announcePeerInRoom fires and sendAnnouncement
\* (lines 370-381) posts the announcement again.
SendAnnouncement(g) ==
    /\ announcer[g]
    /\ log' = <<JoinAnnouncement(g)>>
    /\ UNCHANGED <<state, refs, effect, transport, discovery, calls, media, pending>>

\* ------------------------------------------------------------ calls
\* A MediaConnection.  senders: the tracks of its RTCRtpSenders of kind video, in
\* the order the stream's tracks were added; NoTrack after replaceTrack(null).
\* st: "pending" (dialled, not answered), "open", "closed".  isScreenShare: the
\* metadata of the call (lines 604-606); only toggleScreenShare sets it.
NewCall(p, dir, g, s) ==
    [peer |-> p, dir |-> dir, run |-> g, st |-> IF dir = "in" THEN "open" ELSE "pending",
     stream |-> s, senders |-> IF s \in Runs THEN videoTracks[s] ELSE <<>>,
     isScreenShare |-> dir = "screen"]

\* The handler without the filter of line 265.
IsOwnAnnouncementNever(peerId, myPeerId) == FALSE

\* Line 265: the listener drops its own announcements.
IsOwnAnnouncement(peerId, myPeerId) == peerId = myPeerId

\* Line 271: `localStream` is the value the effect's closure captured.
CanDial(g) == closure[g].localStream # NoStream

\* Lines 174-229: newPeer.on("call"): answer with the `stream` of initPeer
\* (line 179), register the handlers (lines 182-222), store the connection under
\* call.peer (line 225).
IncomingCall(g, p) ==
    /\ transport[g] = "open"
    /\ Len(calls) < MaxCalls
    /\ calls' = Append(calls, NewCall(p, "in", g, g))
    /\ connections' = [connections EXCEPT ![p] = Len(calls) + 1]
    /\ log' = <<>>
    /\ UNCHANGED <<state, cleanupFunctionsRef, effect, transport, discovery, media,
                   pending>>

\* Lines 174-229 for a call the remote side made with metadata
\* {isScreenShare: true} (lines 603-607 of the caller): the handler never reads
\* call.metadata, so the call is answered, wired and stored like any other.
IncomingScreenShare(g, p) ==
    /\ transport[g] = "open"
    /\ Len(calls) < MaxCalls
    /\ calls' = Append(calls, [NewCall(p, "in", g, g) EXCEPT !.isScreenShare = TRUE])
    /\ connections' = [connections EXCEPT ![p] = Len(calls) + 1]
    /\ log' = <<>>
    /\ UNCHANGED <<state, cleanupFunctionsRef, effect, transport, discovery, media,
                   pending>>

\* Lines 260-337: messageHandler of listenForPeersInRoom, for {peerId: p, action: "join"}.
\* peerInstance.call returns nothing and emits "error" on a Peer that is
\* disconnected from the server (lines 276-278, 324-326, 231-235).
ListenerMessage(g, p) ==
    /\ listener[g]
    /\ Announced(p)
    /\ IF IsOwnAnnouncement(p, SelfId(g)) \/ ~CanDial(g)
       THEN /\ log' = <<<<"listener", SelfId(g)>>, <<"message", p>>>>
            /\ UNCHANGED <<state, refs, calls>>
       ELSE IF transport[g] # "open"
       THEN /\ PeerErrorHandler
            /\ log' = <<<<"listener", SelfId(g)>>, <<"message", p>>>>
            /\ UNCHANGED <<peer, localStream, remoteStreams, screenShareStream,
                           isAudioEnabled, isVideoEnabled, isVideoLoading,
                           isScreenSharing, isAnnotating, participantCount, refs, calls>>
       ELSE /\ Len(calls) < MaxCalls
            /\ calls' = Append(calls, NewCall(p, "out", g, closure[g].localStream))
            /\ connections' = [connections EXCEPT ![p] = Len(calls) + 1]
            /\ log' = <<<<"listener", SelfId(g)>>, <<"message", p>>, <<"call", p>>>>
            /\ UNCHANGED <<state, cleanupFunctionsRef>>
    /\ UNCHANGED <<effect, transport, listener, announcer, media, pending>>

\* The identities that have an entry in remoteStreams.
RemoteIds == {e[1] : e \in remoteStreams}
\* A close handler that drops every remote stream.
WithoutStreamsAll(P) == {}

\* prev.filter((s) => s.id !== call.peer) (lines 214-216, 315-317), for the
\* identities of P.
WithoutStreamsOf(P) == {e \in remoteStreams : e[1] \notin P}

\* A stream handler that counts every stream event.
CountAfterStreamAlways(prevCount, present) == prevCount + 1

\* Lines 187-189, 288-290: the count is incremented only when the identity had
\* no entry.
CountAfterStream(prevCount, present) == IF present THEN prevCount ELSE prevCount + 1

\* Lines 186-200, 287-301: the updater of setRemoteStreams; an identity that has
\* an entry keeps it.
StreamsAfterStream(prev, c) ==
    IF \E e \in prev : e[1] = calls[c].peer THEN prev ELSE prev \cup {<<calls[c].peer, c>>}

\* The decrement without Math.max(1, ...).
DecrementCountNoFloor(prevCount) == prevCount - 1

\* Lines 219-221, 320-322: the participant count after a close.
DecrementCount(prevCount) == Max(1, prevCount - 1)

\* Lines 186-201, 287-302: the "stream" handlers of both directions.
ConnStream(c) ==
    /\ c \in 1..Len(calls)
    /\ calls[c].dir \in {"in", "out"}
    /\ calls[c].st # "closed"
    /\ calls' = [calls EXCEPT ![c].st = "open"]
    /\ remoteStreams' = Set(remoteStreams, StreamsAfterStream(remoteStreams, c))
    /\ participantCount' = Set(participantCount,
           CountAfterStream(participantCount, calls[c].peer \in RemoteIds))
    /\ log' = <<>>
    /\ UNCHANGED <<peer, localStream, screenShareStream, isAudioEnabled, isVideoEnabled,
                   isVideoLoading, isScreenSharing, isAnnotating, connectionStatus,
                   errorMessage, refs, effect, transport, discovery, media, pending>>

\* Lines 205-207, 305-307: the "error" handlers only log.
ConnError(c) ==
    /\ c \in 1..Len(calls)
    /\ calls[c].dir \in {"in", "out"}
    /\ log' = <<<<"connectionError", calls[c].peer>>>>
    /\ UNCHANGED <<state, refs, effect, transport, discovery, calls, media, pending>>

\* The Registry after the "close" handler of call c ran: the outbound handler
\* deletes the key (line 312), the inbound handler (lines 210-222) does not.
RegistryAfterClose(reg, c) ==
    IF calls[c].dir = "out" THEN [reg EXCEPT ![calls[c].peer] = 0] ELSE reg

\* The Registry after the "close" handlers of the calls in S ran.
RegistryAfterCloses(reg, S) ==
    [p \in Ids |-> IF \E c \in S : RegistryAfterClose(reg, c)[p] # reg[p] THEN 0 ELSE reg[p]]

\* Lines 210-222, 309-323: the "close" handlers.
ConnClose(c) ==
    /\ c \in 1..Len(calls)
    /\ calls[c].dir \in {"in", "out"}
    /\ calls' = [calls EXCEPT ![c].st = "closed"]
    /\ connections' = RegistryAfterClose(connections, c)
    /\ remoteStreams' = Set(remoteStreams, WithoutStreamsOf({calls[c].peer}))
    /\ participantCount' = Set(participantCount, DecrementCount(participantCount))
    /\ log' = <<>>
    /\ UNCHANGED <<peer, localStream, screenShareStream, isAudioEnabled, isVideoEnabled,
                   isVideoLoading, isScreenSharing, isAnnotating, connectionStatus,
                   errorMessage, cleanupFunctionsRef, effect, transport, discovery,
                   media, pending>>

\* ------------------------------------------------------------ teardown
\* The cleanup closures returned by listenForPeersInRoom (lines 346-356) and
\* announcePeerInRoom (lines 394-410), as run by lines 420-429 and 640-648.
ListenerAfterCleanup == [g \in Runs |-> listener[g] /\ <<"listener", g>> \notin cleanupFunctionsRef]
AnnouncerAfterCleanup == [g \in Runs |-> announcer[g] /\ <<"announcer", g>> \notin cleanupFunctionsRef]

\* stream.getTracks().forEach(track => track.stop()) (lines 434-437, 657-660).
VideoStoppedAfter(s) == stoppedTracks \cup (IF s = NoStream THEN {} ELSE Range(videoTracks[s]))
AudioStoppedAfter(s) ==
    stoppedAudio \cup (IF s # NoStream /\ audioTrack[s] # "none" THEN {s} ELSE {})
\* screenShareStream.getTracks().forEach(track => track.stop()) (lines 442, 665, 620).
SharesAfterStop(ss) == liveShares \ ({ss} \X {"video", "audio"})

\* The calls in the Registry: Object.values(connections.current).
Registered == {connections[p] : p \in Ids} \ {0}
\* The calls the Peer object pr still holds; Peer.destroy() closes them.
HeldBy(pr) == {c \in 1..Len(calls) : pr # 0 /\ calls[c].run = pr /\ calls[c].st # "closed"}
\* MediaConnection.close() emits "close" only on a connection that was open;
\* these are the calls whose "close" handler runs when the set S is closed.
Firing(S) == {c \in S : calls[c].st = "open" /\ calls[c].dir \in {"in", "out"}}
CallsAfterClose(S) ==
    [c \in 1..Len(calls) |-> IF c \in S THEN [calls[c] EXCEPT !.st = "closed"] ELSE calls[c]]
RECURSIVE DecrementTimes(_, _)
DecrementTimes(n, count) == IF n = 0 THEN count ELSE DecrementTimes(n - 1, DecrementCount(count))

\* peer.disconnect(); peer.destroy() (lines 446-450, 683-687).  disconnect()
\* emits "disconnected" unless the Peer already is disconnected or destroyed.
EmitsDisconnected(pr) == pr # 0 /\ transport[pr] \in {"new", "open"}
TransportAfterDestroy(pr) == IF pr = 0 THEN transport ELSE [transport EXCEPT ![pr] = "destroyed"]

\* Lines 635-694: leaveRoom.  The order of its steps is recorded in log.
LeaveSteps == <<<<"cleanupFunctions", "">>, <<"stopTracks", "">>, <<"closeConnections", "">>,
                <<"destroyPeer", "">>, <<"navigate", "">>>>

LeaveRoom ==
    /\ mounted
    /\ LET closed == Registered \cup HeldBy(peer)
       IN /\ calls' = CallsAfterClose(closed)
          /\ remoteStreams' = WithoutStreamsOf({calls[c].peer : c \in Firing(closed)})
          /\ participantCount' = DecrementTimes(Cardinality(Firing(closed)), participantCount)
    /\ listener' = ListenerAfterCleanup
    /\ announcer' = AnnouncerAfterCleanup
    /\ cleanupFunctionsRef' = {}
    /\ stoppedTracks' = VideoStoppedAfter(localStream)
    /\ stoppedAudio' = AudioStoppedAfter(localStream)
    /\ liveShares' = SharesAfterStop(screenShareStream)
    /\ connections' = [p \in Ids |-> 0]
    /\ transport' = TransportAfterDestroy(peer)
    /\ connectionStatus' = IF EmitsDisconnected(peer) THEN "disconnected" ELSE connectionStatus
    /\ log' = LeaveSteps
    /\ UNCHANGED <<peer, localStream, screenShareStream, isAudioEnabled, isVideoEnabled,
                   isVideoLoading, isScreenSharing, isAnnotating, errorMessage, effect,
                   videoTracks, audioTrack, nTracks, nShares, pending>>

\* leaveRoom when connection.close() of the registered call c throws inside the
\* forEach of lines 673-675: the calls listed before c were closed, the walk stops,
\* connections.current = {} (line 676) is skipped, the catch of lines 677-679
\* logs, and lines 681-693 run.  Object.values lists the entries in the order
\* their keys were inserted, here the order of the calls.
LeaveThrowSteps == <<<<"cleanupFunctions", "">>, <<"stopTracks", "">>,
                     <<"closeConnections", "throws">>, <<"destroyPeer", "">>,
                     <<"navigate", "">>>>

LeaveRoomCloseThrows(c) ==
    /\ mounted
    /\ c \in Registered
    /\ LET closed == {d \in Registered : d < c} \cup HeldBy(peer)
       IN /\ calls' = CallsAfterClose(closed)
          /\ connections' = RegistryAfterCloses(connections, Firing(closed))
          /\ remoteStreams' = WithoutStreamsOf({calls[d].peer : d \in Firing(closed)})
          /\ participantCount' = DecrementTimes(Cardinality(Firing(closed)), participantCount)
    /\ listener' = ListenerAfterCleanup
    /\ announcer' = AnnouncerAfterCleanup
    /\ cleanupFunctionsRef' = {}
    /\ stoppedTracks' = VideoStoppedAfter(localStream)
    /\ stoppedAudio' = AudioStoppedAfter(localStream)
    /\ liveShares' = SharesAfterStop(screenShareStream)
    /\ transport' = TransportAfterDestroy(peer)
    /\ connectionStatus' = IF EmitsDisconnected(peer) THEN "disconnected" ELSE connectionStatus
    /\ log' = LeaveThrowSteps
    /\ UNCHANGED <<peer, localStream, screenShareStream, isAudioEnabled, isVideoEnabled,
                   isVideoLoading, isScreenSharing, isAnnotating, errorMessage, effect,
                   videoTracks, audioTrack, nTracks, nShares, pending>>

\* Lines 415-451: the cleanup the effect run g returned.  It reads localStream,
\* screenShareStream and peer from the closure of that run and does not touch
\* connections.current.
CleanupSteps == <<<<"cleanupFunctions", "">>, <<"stopTracks", "">>, <<"destroyPeer", "">>>>

\* React unmounts the component (a route change, or the navigate of line 693).
Unmount ==
    /\ mounted
    /\ mounted' = FALSE
    /\ calls' = CallsAfterClose(HeldBy(closure[run].peer))
    /\ listener' = ListenerAfterCleanup
    /\ announcer' = AnnouncerAfterCleanup
    /\ cleanupFunctionsRef' = {}
    /\ stoppedTracks' = VideoStoppedAfter(closure[run].localStream)
    /\ stoppedAudio' = AudioStoppedAfter(closure[run].localStream)
    /\ liveShares' = SharesAfterStop(closure[run].screenShareStream)
    /\ transport' = TransportAfterDestroy(closure[run].peer)
    /\ connections' = RegistryAfterCloses(connections, Firing(HeldBy(closure[run].peer)))
    /\ log' = CleanupSteps
    /\ UNCHANGED <<state, actualRoomId, run, closure, initPc, videoTracks,
                   audioTrack, nTracks, nShares, pending>>

\* A dependency of line 452 changes while the component stays mounted: React
\* runs the cleanup of the current run, then the effect again (lines 85-96, 413)
\* with a closure over the state of the render that saw the change.
Remount(room) ==
    /\ mounted
    /\ run < MaxRuns
    /\ run' = run + 1
    /\ actualRoomId' = room
    /\ closure' = [closure EXCEPT ![run + 1] =
           [localStream |-> localStream, screenShareStream |-> screenShareStream,
            peer |-> peer]]
    /\ LET closed == HeldBy(closure[run].peer)
       IN /\ calls' = CallsAfterClose(closed)
          /\ connections' = RegistryAfterCloses(connections, Firing(closed))
          /\ remoteStreams' = WithoutStreamsOf({calls[c].peer : c \in Firing(closed)})
          /\ participantCount' = DecrementTimes(Cardinality(Firing(closed)), participantCount)
    /\ listener' = ListenerAfterCleanup
    /\ announcer' = AnnouncerAfterCleanup
    /\ cleanupFunctionsRef' = {}
    /\ stoppedTracks' = VideoStoppedAfter(closure[run].localStream)
    /\ stoppedAudio' = AudioStoppedAfter(closure[run].localStream)
    /\ liveShares' = SharesAfterStop(closure[run].screenShareStream)
    /\ transport' = TransportAfterDestroy(closure[run].peer)
    /\ connectionStatus' = IF room = "" THEN "error"
                           ELSE IF EmitsDisconnected(closure[run].peer) THEN "disconnected"
                           ELSE connectionStatus
    /\ errorMessage' = IF room = "" THEN "Room ID is missing" ELSE errorMessage
    /\ initPc' = IF room = "" THEN initPc ELSE [initPc EXCEPT ![run + 1] = "av"]
    /\ log' = CleanupSteps
    /\ UNCHANGED <<peer, localStream, screenShareStream, isAudioEnabled, isVideoEnabled,
                   isVideoLoading, isScreenSharing, isAnnotating, mounted,
                   videoTracks, audioTrack, nTracks, nShares, pending>>

\* ------------------------------------------------------------ media controls
\* connection.peerConnection is null once the MediaConnection is closed
\* (the guard of lines 494 and 542).
HasPeerConnection(c) == calls[c].st # "closed"

\* A mute that releases the microphone: it stops the audio track instead of
\* clearing its enabled flag.
ToggleAudioStopsTrack ==
    /\ mounted
    /\ localStream # NoStream
    /\ stoppedAudio' = IF isAudioEnabled THEN AudioStoppedAfter(localStream) ELSE stoppedAudio
    /\ isAudioEnabled' = ~isAudioEnabled
    /\ log' = <<>>
    /\ UNCHANGED <<peer, localStream, remoteStreams, screenShareStream, isVideoEnabled,
                   isVideoLoading, isScreenSharing, isAnnotating, participantCount,
                   connectionStatus, errorMessage, refs, effect, transport, discovery,
                   calls, videoTracks, audioTrack, stoppedTracks, nTracks, nShares,
                   liveShares, pending>>

\* Lines 455-463: toggleAudio.
ToggleAudio ==
    /\ mounted
    /\ localStream # NoStream
    /\ audioTrack' = [audioTrack EXCEPT ![localStream] =
           IF @ = "none" THEN "none" ELSE IF isAudioEnabled THEN "disabled" ELSE "enabled"]
    /\ isAudioEnabled' = ~isAudioEnabled
    /\ log' = <<>>
    /\ UNCHANGED <<peer, localStream, remoteStreams, screenShareStream, isVideoEnabled,
                   isVideoLoading, isScreenSharing, isAnnotating, participantCount,
                   connectionStatus, errorMessage, refs, effect, transport, discovery,
                   calls, videoTracks, stoppedTracks, stoppedAudio, nTracks, nShares,
                   liveShares, pending>>

CameraOnMsg == "Camera has been turned on."
CameraOffMsg == "Camera has been turned off completely."

\* Lines 496-498: the first sender that has a track of kind video.
RECURSIVE FirstVideoSender(_, _)
FirstVideoSender(senders, i) ==
    IF i > Len(senders) THEN 0
    ELSE IF senders[i] # NoTrack THEN i
    ELSE FirstVideoSender(senders, i + 1)

\* Lines 489-510: the senders of one connection after toggleVideo (on) offered it
\* the new track.
SendersAfterOn(c, track) ==
    LET i == FirstVideoSender(calls[c].senders, 1)
    IN IF HasPeerConnection(c) /\ i # 0
       THEN [calls[c].senders EXCEPT ![i] = track]
       ELSE calls[c].senders

\* Lines 540-557: the senders of one connection after toggleVideo (off) walked
\* the video tracks `tracks` of the local stream: the sender whose track has the
\* id of a removed track gets replaceTrack(null).
SendersAfterOff(c, tracks) ==
    IF HasPeerConnection(c)
    THEN [i \in 1..Len(calls[c].senders) |->
             IF calls[c].senders[i] \in Range(tracks) THEN NoTrack ELSE calls[c].senders[i]]
    ELSE calls[c].senders

\* The entry of toggleVideo into its branches (lines 468, 528).
ToggleOnStep == <<"toggleVideo", "on">>
ToggleOffStep == <<"toggleVideo", "off">>

\* The calls of lines 536-569 for each video track, in order.
RECURSIVE OffSteps(_)
OffSteps(tracks) ==
    IF tracks = <<>> THEN <<>>
    ELSE <<<<"replaceTrack", ToString(Head(tracks))>>,
           <<"removeTrack", ToString(Head(tracks))>>,
           <<"stop", ToString(Head(tracks))>>>> \o OffSteps(Tail(tracks))

\* Lines 466-471, 519-527: toggleVideo (on) without a local stream: no request.
\* Lines 472-480: with a local stream, getUserMedia({video}) is awaited.
\* The button is disabled while isVideoLoading (ControlPanel, line 110).
ToggleVideoOn ==
    /\ mounted /\ ~isVideoLoading /\ ~isVideoEnabled
    /\ IF localStream # NoStream
       THEN /\ isVideoLoading' = TRUE
            /\ videoReq' = localStream
            /\ UNCHANGED <<isVideoEnabled, errorMessage, timers>>
       ELSE /\ isVideoEnabled' = TRUE
            /\ isVideoLoading' = FALSE
            /\ errorMessage' = CameraOnMsg
            /\ timers' = timers \cup {CameraOnMsg}
            /\ UNCHANGED videoReq
    /\ log' = (IF log # <<>> /\ log[1] = ToggleOffStep THEN log ELSE <<>>) \o <<ToggleOnStep>>
    /\ UNCHANGED <<peer, localStream, remoteStreams, screenShareStream, isAudioEnabled,
                   isScreenSharing, isAnnotating, participantCount, connectionStatus,
                   refs, effect, transport, discovery, calls, media, shareReq>>

\* Lines 481-527: the camera request of toggleVideo (on) resolves.
VideoAcquired ==
    /\ videoReq # 0
    /\ nTracks < MaxTracks
    /\ LET track == nTracks + 1
       IN /\ nTracks' = track
          /\ videoTracks' = [videoTracks EXCEPT ![videoReq] = Append(@, track)]
          /\ calls' = [c \in 1..Len(calls) |->
                 IF c \in Registered
                 THEN [calls[c] EXCEPT !.senders = SendersAfterOn(c, track)]
                 ELSE calls[c]]
    /\ videoReq' = 0
    /\ isVideoEnabled' = Set(isVideoEnabled, TRUE)
    /\ isVideoLoading' = Set(isVideoLoading, FALSE)
    /\ errorMessage' = Set(errorMessage, CameraOnMsg)
    /\ timers' = timers \cup {CameraOnMsg}
    /\ log' = log \o <<<<"addTrack", ToString(nTracks + 1)>>>>
    /\ UNCHANGED <<peer, localStream, remoteStreams, screenShareStream, isAudioEnabled,
                   isScreenSharing, isAnnotating, participantCount, connectionStatus,
                   refs, effect, transport, discovery, audioTrack, stoppedTracks,
                   stoppedAudio, nShares, liveShares, shareReq>>

\* The catch that falls through to setIsVideoEnabled(true) of line 519.
EnabledAfterFallThrough == TRUE

\* Line 516: the catch returns without changing isVideoEnabled.
EnabledAfterFailedAcquire == isVideoEnabled

CameraFailedMsg == "Could not access camera. It might be in use by another application."

\* Lines 512-517: the camera request of toggleVideo (on) is rejected.
VideoAcquireFailed ==
    /\ videoReq # 0
    /\ videoReq' = 0
    /\ isVideoEnabled' = Set(isVideoEnabled, EnabledAfterFailedAcquire)
    /\ errorMessage' = Set(errorMessage, CameraFailedMsg)
    /\ isVideoLoading' = Set(isVideoLoading, FALSE)
    /\ log' = <<>>
    /\ UNCHANGED <<peer, localStream, remoteStreams, screenShareStream, isAudioEnabled,
                   isScreenSharing, isAnnotating, participantCount,
                   connectionStatus, refs, effect, transport, discovery, calls, media,
                   shareReq, timers>>

\* A camera-off that tears the connection down instead of updating it in place.
CallClosedAfterOff(c, tracks) == [calls[c] EXCEPT !.st = "closed", !.senders = <<>>]

\* Lines 540-557: the connection c after toggleVideo (off): the same
\* MediaConnection, its senders updated in place.
CallAfterOff(c, tracks) == [calls[c] EXCEPT !.senders = SendersAfterOff(c, tracks)]

\* Lines 528-582: toggleVideo (off).
ToggleVideoOff ==
    /\ mounted /\ ~isVideoLoading /\ isVideoEnabled
    /\ IF localStream # NoStream
       THEN LET tracks == videoTracks[localStream]
            IN /\ calls' = [c \in 1..Len(calls) |->
                      IF c \in Registered
                      THEN CallAfterOff(c, tracks)
                      ELSE calls[c]]
               /\ videoTracks' = [videoTracks EXCEPT ![localStream] = <<>>]
               /\ stoppedTracks' = stoppedTracks \cup Range(tracks)
               /\ errorMessage' = IF tracks # <<>> THEN CameraOffMsg ELSE errorMessage
               /\ timers' = IF tracks # <<>> THEN timers \cup {CameraOffMsg} ELSE timers
               /\ log' = <<ToggleOffStep>> \o OffSteps(tracks)
       ELSE /\ log' = <<ToggleOffStep>>
            /\ UNCHANGED <<calls, videoTracks, stoppedTracks, errorMessage, timers>>
    /\ isVideoEnabled' = FALSE
    /\ isVideoLoading' = FALSE
    /\ UNCHANGED <<peer, localStream, remoteStreams, screenShareStream, isAudioEnabled,
                   isScreenSharing, isAnnotating, participantCount, connectionStatus,
                   refs, effect, transport, discovery, audioTrack, stoppedAudio, nTracks,
                   nShares, liveShares, videoReq, shareReq>>

\* A timeout that clears whatever message is shown.
MessageAfterTimerAlways(prev, msg) == ""

\* Lines 526, 576: the updater of the timeout, prev => prev === msg ? "" : prev.
MessageAfterTimer(prev, msg) == IF prev = msg THEN "" ELSE prev

\* Lines 525-527, 575-577: an auto-clear timeout fires.
TimerFire(msg) ==
    /\ msg \in timers
    /\ timers' = timers \ {msg}
    /\ errorMessage' = Set(errorMessage, MessageAfterTimer(errorMessage, msg))
    /\ log' = <<<<"timer", msg>>>>
    /\ UNCHANGED <<peer, localStream, remoteStreams, screenShareStream, isAudioEnabled,
                   isVideoEnabled, isVideoLoading, isScreenSharing, isAnnotating,
                   participantCount, connectionStatus, refs, effect, transport,
                   discovery, calls, media, videoReq, shareReq>>

\* ------------------------------------------------------------ screen sharing
\* Lines 591-597: toggleScreenShare (on) awaits getDisplayMedia; `peer` is the
\* value of the render that created the handler.
ToggleScreenShareOn ==
    /\ mounted /\ ~isScreenSharing /\ shareReq = -1
    /\ shareReq' = peer
    /\ log' = <<>>
    /\ UNCHANGED <<state, refs, effect, transport, discovery, calls, media, videoReq,
                   timers>>

\* The calls of lines 603-607, one per connection of the Registry.
RECURSIVE ScreenCalls(_, _)
ScreenCalls(S, pr) ==
    IF S = {} THEN <<>>
    ELSE LET c == CHOOSE x \in S : \A y \in S : x <= y
         IN <<NewCall(calls[c].peer, "screen", pr, ScreenMedia)>> \o ScreenCalls(S \ {c}, pr)

\* Lines 594-597: getDisplayMedia({video: true, audio: true}) resolves with a
\* video track and, when the user shares audio, an audio track.
ShareKinds == {{"video"}, {"video", "audio"}}

\* Lines 599-614: the display capture resolves.  peer?.call on a Peer that is
\* not connected to the server returns nothing and emits "error".
ShareAcquired ==
    /\ shareReq # -1
    /\ nShares < MaxShares
    /\ nShares' = nShares + 1
    /\ \E kinds \in ShareKinds : liveShares' = liveShares \cup ({nShares + 1} \X kinds)
    /\ screenShareStream' = Set(screenShareStream, nShares + 1)
    /\ isScreenSharing' = Set(isScreenSharing, TRUE)
    /\ shareReq' = -1
    /\ IF shareReq = 0 \/ Registered = {}
       THEN UNCHANGED <<calls, errorMessage, connectionStatus>>
       ELSE IF transport[shareReq] = "open"
       THEN /\ Len(calls) + Cardinality(Registered) <= MaxCalls + MaxScreenCalls
            /\ calls' = calls \o ScreenCalls(Registered, shareReq)
            /\ UNCHANGED <<errorMessage, connectionStatus>>
       ELSE /\ PeerErrorHandler
            /\ UNCHANGED calls
    /\ log' = <<>>
    /\ UNCHANGED <<peer, localStream, remoteStreams, isAudioEnabled, isVideoEnabled,
                   isVideoLoading, isAnnotating, participantCount, refs, effect,
                   transport, discovery, videoTracks, audioTrack, stoppedTracks,
                   stoppedAudio, nTracks, videoReq, timers>>

\* Lines 603-607: the remote side answers a screen-share call.  The
\* MediaConnection that peer.call returned was not kept and has no handler, so
\* nothing of the session changes but the connection itself.
ScreenCallAnswered(c) ==
    /\ c \in 1..Len(calls)
    /\ calls[c].dir = "screen" /\ calls[c].st = "pending"
    /\ calls' = [calls EXCEPT ![c].st = "open"]
    /\ log' = <<>>
    /\ UNCHANGED <<state, refs, effect, transport, discovery, media, pending>>

\* Lines 615-617: the display capture is rejected; the error is logged.
ShareFailed ==
    /\ shareReq # -1
    /\ shareReq' = -1
    /\ log' = <<>>
    /\ UNCHANGED <<state, refs, effect, transport, discovery, calls, media, videoReq,
                   timers>>

\* Lines 618-624: toggleScreenShare (off).
ToggleScreenShareOff ==
    /\ mounted /\ isScreenSharing
    /\ liveShares' = SharesAfterStop(screenShareStream)
    /\ isScreenSharing' = FALSE
    /\ isAnnotating' = FALSE
    /\ screenShareStream' = NoStream
    /\ log' = <<>>
    /\ UNCHANGED <<peer, localStream, remoteStreams, isAudioEnabled, isVideoEnabled,
                   isVideoLoading, participantCount, connectionStatus, errorMessage,
                   refs, effect, transport, discovery, calls, videoTracks, audioTrack,
                   stoppedTracks, stoppedAudio, nTracks, nShares, pending>>

\* Lines 610-614: the browser ends the capture's video track (the user stopped
\* sharing from the browser's own control) and its onended handler runs.  The
\* handler was set on track 0 of the stream when the capture resolved (line 610).
ShareEndedByUser(ss) ==
    /\ <<ss, "video">> \in liveShares
    /\ liveShares' = liveShares \ {<<ss, "video">>}
    /\ isScreenSharing' = Set(isScreenSharing, FALSE)
    /\ isAnnotating' = Set(isAnnotating, FALSE)
    /\ screenShareStream' = Set(screenShareStream, NoStream)
    /\ log' = <<>>
    /\ UNCHANGED <<peer, localStream, remoteStreams, isAudioEnabled, isVideoEnabled,
                   isVideoLoading, participantCount, connectionStatus, errorMessage,
                   refs, effect, transport, discovery, calls, videoTracks, audioTrack,
                   stoppedTracks, stoppedAudio, nTracks, nShares, pending>>

\* Lines 628-632: toggleAnnotation.
ToggleAnnotation ==
    /\ mounted /\ isScreenSharing
    /\ isAnnotating' = ~isAnnotating
    /\ log' = <<>>
    /\ UNCHANGED <<peer, localStream, remoteStreams, screenShareStream, isAudioEnabled,
                   isVideoEnabled, isVideoLoading, isScreenSharing, participantCount,
                   connectionStatus, errorMessage, refs, effect, transport, discovery,
                   calls, media, pending>>

\* ------------------------------------------------------------ specification
StartStep ==
    \/ \E g \in Runs : AcquireAudioVideo(g)
    \/ \E g \in Runs : CameraBusy(g)
    \/ \E g \in Runs : MediaDenied(g)
    \/ \E g \in Runs : AcquireAudioOnly(g)
    \/ \E g \in Runs : ViewOnlyFallback(g)
    \/ \E g \in Runs, listenOk, announceOk \in BOOLEAN : PeerOpen(g, listenOk, announceOk)

TransportStep ==
    \/ \E g \in Runs : PeerError(g)
    \/ \E g \in Runs : PeerDisconnected(g)

DiscoveryStep ==
    \E g \in Runs, p \in Ids : ListenerMessage(g, p)

CallStep ==
    \/ \E g \in Runs, p \in Remotes : IncomingCall(g, p)
    \/ \E c \in 1..MaxCalls : ConnStream(c)
    \/ \E c \in 1..MaxCalls : ConnError(c)
    \/ \E c \in 1..MaxCalls : ConnClose(c)

TeardownStep ==
    \/ LeaveRoom
    \/ Unmount
    \/ \E room \in Rooms : Remount(room)

CameraStep ==
    \/ ToggleVideoOn
    \/ VideoAcquired
    \/ VideoAcquireFailed
    \/ ToggleVideoOff
    \/ \E msg \in {CameraOnMsg, CameraOffMsg} : TimerFire(msg)

ShareStep ==
    \/ ToggleScreenShareOn
    \/ ShareAcquired
    \/ ShareFailed
    \/ ToggleScreenShareOff

\* A screen-share call of a remote participant arrives; one of ours is answered.
ScreenCallStep ==
    \/ \E g \in Runs, p \in Remotes : IncomingScreenShare(g, p)
    \/ \E c \in 1..(MaxCalls + MaxScreenCalls) : ScreenCallAnswered(c)

\* Annotation, and the end of a capture from outside the page.
OverlayStep ==
    \/ ToggleAnnotation
    \/ \E ss \in 1..MaxShares : ShareEndedByUser(ss)

\* The announcer's interval fires.
AnnounceStep ==
    \E g \in Runs : SendAnnouncement(g)

\* A cleanup action of leaveRoom throws.
FailingTeardownStep ==
    \E c \in 1..MaxCalls : LeaveRoomCloseThrows(c)

Next ==
    \/ StartStep \/ TransportStep \/ DiscoveryStep \/ CallStep \/ TeardownStep
    \/ ToggleAudio \/ CameraStep \/ ShareStep \/ FailingTeardownStep
    \/ ScreenCallStep \/ OverlayStep \/ AnnounceStep

\* The whole program.
Spec == Init /\ [][Next]_vars

\* Discovery, calls and teardown: the Registry and the participant count.
NextCalls == StartStep \/ DiscoveryStep \/ CallStep \/ TeardownStep \/ FailingTeardownStep
SpecCalls == Init /\ [][NextCalls]_vars

\* The camera toggle with the calls it acts on, across runs of the effect.
NextMedia ==
    \/ \E g \in Runs : AcquireAudioVideo(g)
    \/ \E g \in Runs : CameraBusy(g)
    \/ \E g \in Runs : AcquireAudioOnly(g)
    \/ \E g \in Runs : PeerOpen(g, TRUE, TRUE)
    \/ \E g \in Runs, p \in Remotes : IncomingCall(g, p)
    \/ \E c \in 1..MaxCalls : ConnClose(c)
    \/ Remount("r1")
    \/ ToggleVideoOn
    \/ VideoAcquired
    \/ VideoAcquireFailed
    \/ ToggleVideoOff
SpecMedia == Init /\ [][NextMedia]_vars

\* Start-up, transport events, teardown and the controls that need no call.
NextSession == StartStep \/ TransportStep \/ TeardownStep \/ ToggleAudio \/ ShareStep
SpecSession == Init /\ [][NextSession]_vars

\* A started session with its calls, transport events and the audio control.
NextLive ==
    \/ StartStep
    \/ TransportStep
    \/ \E g \in Runs, p \in Remotes : IncomingCall(g, p)
    \/ \E c \in 1..MaxCalls : ConnStream(c)
    \/ \E c \in 1..MaxCalls : ConnClose(c)
    \/ ToggleAudio
    \/ LeaveRoom
    \/ Unmount
SpecLive == Init /\ [][NextLive]_vars

\* Screen sharing in a live session: the calls it originates and receives.
NextShare ==
    \/ StartStep
    \/ TransportStep
    \/ \E g \in Runs, p \in Remotes : IncomingCall(g, p)
    \/ \E c \in 1..MaxCalls : ConnStream(c)
    \/ \E c \in 1..MaxCalls : ConnClose(c)
    \/ ShareStep
    \/ ScreenCallStep
SpecShare == Init /\ [][NextShare]_vars

\* A screen share from start to end: toggle, annotation, the capture ending.
NextScreen ==
    \/ StartStep
    \/ TransportStep
    \/ \E g \in Runs, p \in Remotes : IncomingCall(g, p)
    \/ ShareStep
    \/ OverlayStep
SpecScreen == Init /\ [][NextScreen]_vars

\* Discovery in a session that stays up.  The remote announcer repeats its
\* announcement on its interval (line 387) and the channel delivers it, so the
\* listener's messageHandler keeps being invoked: weak fairness on its delivery.
NextDiscover ==
    \/ StartStep
    \/ TransportStep
    \/ DiscoveryStep
SpecDiscover ==
    /\ Init /\ [][NextDiscover]_vars
    /\ \A g \in Runs, p \in Remotes : WF_vars(ListenerMessage(g, p))

\* The announcer over the life of the component: start, transport events,
\* the interval, teardown and re-runs of the effect.
NextAnnounce ==
    \/ StartStep
    \/ TransportStep
    \/ TeardownStep
    \/ AnnounceStep
SpecAnnounce == Init /\ [][NextAnnounce]_vars

\* The connections of a session with media: answered and dialled calls and
\* their events, across one re-run of the effect.
NextLinks ==
    \/ \E g \in Runs : AcquireAudioVideo(g)
    \/ \E g \in Runs : PeerOpen(g, TRUE, TRUE)
    \/ Remount("r1")
    \/ DiscoveryStep
    \/ CallStep
SpecLinks == Init /\ [][NextLinks]_vars

\* The advisories of the camera toggle and their timeouts, with the messages
\* of the transport's error handler.
NextAdvisory ==
    \/ \E g \in Runs : AcquireAudioVideo(g)
    \/ \E g \in Runs : CameraBusy(g)
    \/ \E g \in Runs : AcquireAudioOnly(g)
    \/ \E g \in Runs : PeerOpen(g, TRUE, TRUE)
    \/ TransportStep
    \/ CameraStep
SpecAdvisory == Init /\ [][NextAdvisory]_vars

\* ------------------------------------------------------------ properties
\* The tracks of display capture ss that are still live.
LiveShareTracks(ss) == {tr \in liveShares : tr[1] = ss}

CallIds == 1..Len(calls)
\* The calls that went through the Registry: answered (lines 174-229) or dialled
\* (lines 276-323).
IsLink(c) == calls[c].dir \in {"in", "out"}

\* C1: for every remote identity, the connection registered first is the one the
\* Registry keeps, and every later connection for that identity is closed at
\* once and never registered.
C1_FirstConnectionKept ==
    \A c, d \in CallIds :
        (c < d /\ IsLink(c) /\ IsLink(d) /\ calls[c].peer = calls[d].peer
              /\ calls[c].st # "closed")
            => (connections[calls[c].peer] = c /\ calls[d].st = "closed")

\* C2: the participant count is at least 1 in every reachable state, whatever
\* close events were delivered.
C2_CountAtLeastOne == participantCount >= 1

\* C2's case: two connections of one peer have both reported close (the second
\* close is for a peer already removed) and the count stands at 1.
C2_Witness ==
    /\ participantCount = 1
    /\ mounted
    /\ \E c, d \in CallIds :
           c # d /\ calls[c].peer = calls[d].peer /\ IsLink(c) /\ IsLink(d)
                 /\ calls[c].st = "closed" /\ calls[d].st = "closed"

\* C4: no outbound call is made to the identity of the Peer object that makes
\* it, and no such call is stored in the Registry under that identity.
C4_NoSelfConnection ==
    /\ \A c \in CallIds : calls[c].dir = "out" => calls[c].peer # SelfId(calls[c].run)
    /\ \A g \in Runs : connections[SelfId(g)] # 0 => calls[connections[SelfId(g)]].run # g

\* C4's case: a listener that would dial (it has a stream, an open transport and
\* room for a call) has just handled its own announcement.
C4_Witness ==
    \E g \in Runs :
        /\ log = <<<<"listener", SelfId(g)>>, <<"message", SelfId(g)>>>>
        /\ CanDial(g) /\ transport[g] = "open" /\ Len(calls) < MaxCalls

\* C5: when B's join announcement reaches the listener of A, which started with
\* audio and video and is connected with participant count 1, A originates a
\* call to B and registers it.
C5_JoinIsDialed ==
    (/\ Len(log) >= 2
     /\ log[1] = <<"listener", SelfId(1)>> /\ log[2] = <<"message", "B">>
     /\ transport[1] = "open" /\ videoTracks[1] # <<>> /\ audioTrack[1] # "none"
     /\ localStream = 1 /\ run = 1 /\ mounted)
        => (/\ Len(log) = 3
            /\ connections["B"] # 0
            /\ calls[connections["B"]].dir = "out")

\* The tracks of local stream s that are live (not stopped).
LiveTracks(s) ==
    IF s = NoStream THEN {}
    ELSE {<<"video", ToString(k)>> : k \in Range(videoTracks[s]) \ stoppedTracks}
         \cup (IF audioTrack[s] # "none" /\ s \notin stoppedAudio
               THEN {<<"audio", ToString(s)>>} ELSE {})

\* C3: once a teardown, leaveRoom or the effect's cleanup, has run on a session
\* that had acquired its local stream, the Registry is empty, the local stream
\* and the screen-share stream have no live track and the status is
\* disconnected.
C3_TeardownEndState ==
    ((log = LeaveSteps \/ log = CleanupSteps) /\ localStream # NoStream)
        => (/\ Registered = {}
            /\ LiveTracks(localStream) = {}
            /\ LiveShareTracks(screenShareStream) = {}
            /\ connectionStatus = "disconnected")

\* A toggleVideo off directly followed by a toggleVideo on whose camera request
\* resolved: the log holds the steps of both.
OffOnPairDone ==
    /\ Len(log) >= 3
    /\ log[1] = ToggleOffStep
    /\ log[Len(log) - 1] = ToggleOnStep
    /\ log[Len(log)][1] = "addTrack"

\* The video tracks the local stream had when the off of the pair began: one
\* removeTrack per track.
TracksBeforeOff == Cardinality({i \in 1..Len(log) : log[i][1] = "removeTrack"})

\* C6: after toggleVideo off then a successful toggleVideo on, every live
\* connection of the Registry has a video sender that carries the local
\* stream's newly acquired video track.
C6_SendersFollowNewTrack ==
    (OffOnPairDone /\ localStream # NoStream)
        => \A c \in Registered :
               (IsLink(c) /\ HasPeerConnection(c))
                   => \E i \in 1..Len(calls[c].senders) :
                          ToString(calls[c].senders[i]) = log[Len(log)][2]

\* The position of step s in the log q, 0 if absent.
StepIndex(q, s) == IF \E i \in 1..Len(q) : q[i] = s
                   THEN CHOOSE i \in 1..Len(q) : q[i] = s ELSE 0

\* C7: a toggleVideo off on a local stream leaves every live connection of the
\* Registry with no track on its video senders, replaces the sender's track
\* before it removes the track from the stream and stops it, leaves the stream
\* with zero video tracks and reports video disabled.
C7_OffMutesEveryConnection ==
    [][(ToggleVideoOff /\ localStream # NoStream)
         => (/\ \A c \in Registered :
                    (IsLink(c) /\ HasPeerConnection(c))
                        => \A i \in 1..Len(calls'[c].senders) :
                               calls'[c].senders[i] = NoTrack
             /\ \A k \in Range(videoTracks[localStream]) :
                    /\ StepIndex(log', <<"replaceTrack", ToString(k)>>) > 0
                    /\ StepIndex(log', <<"replaceTrack", ToString(k)>>)
                           < StepIndex(log', <<"removeTrack", ToString(k)>>)
                    /\ StepIndex(log', <<"removeTrack", ToString(k)>>)
                           < StepIndex(log', <<"stop", ToString(k)>>)
             /\ videoTracks'[localStream] = <<>>
             /\ ~isVideoEnabled')]_vars

\* C8: after toggleVideo off then a successful toggleVideo on, the local stream
\* has as many video tracks as it had before the off.
C8_PairKeepsTrackCount ==
    (OffOnPairDone /\ localStream # NoStream)
        => Len(videoTracks[localStream]) = TracksBeforeOff

\* C9: when the camera request of toggleVideo on is rejected, video stays
\* reported off, the local stream keeps its tracks, no connection changes, the
\* loading flag is cleared and the advisory message is set.
C9_FailedAcquireNoPartialState ==
    [][(VideoAcquireFailed /\ mounted)
         => (/\ ~isVideoEnabled /\ ~isVideoEnabled'
             /\ videoTracks' = videoTracks
             /\ calls' = calls /\ connections' = connections
             /\ ~isVideoLoading'
             /\ errorMessage' = CameraFailedMsg)]_vars

\* C9's case: the rejected request has been handled while a live connection
\* with a video sender was in the Registry.
C9_Witness ==
    /\ mounted /\ errorMessage = CameraFailedMsg /\ videoReq = 0 /\ ~isVideoLoading
    /\ \E c \in Registered : HasPeerConnection(c) /\ calls[c].senders # <<>>

\* C10: the audio-only retry after a device-busy failure disables video, leaves
\* audio enabled, sets the advisory message, creates the transport and does not
\* touch the status; neither does the device-busy failure itself.  When that
\* transport opens the status becomes connected.
C10_BusyCameraContinues ==
    [][\A g \in Runs :
          /\ (CameraBusy(g) /\ mounted) => connectionStatus' = connectionStatus
          /\ (AcquireAudioOnly(g) /\ mounted)
                => (/\ ~isVideoEnabled'
                    /\ isAudioEnabled' = isAudioEnabled /\ audioTrack'[g] = "enabled"
                    /\ errorMessage' = CameraBusyMsg
                    /\ transport'[g] = "new" /\ peer' = g
                    /\ connectionStatus' = connectionStatus)
          /\ (\E l, a \in BOOLEAN : PeerOpen(g, l, a) /\ mounted)
                => connectionStatus' = "connected"]_vars

\* C10's case: the session started audio-only after a busy camera, its
\* transport has opened and the status is connected with the advisory shown.
C10_Witness ==
    /\ mounted /\ run = 1 /\ localStream = 1 /\ transport[1] = "open"
    /\ videoTracks[1] = <<>> /\ audioTrack[1] = "enabled"
    /\ ~isVideoEnabled /\ isAudioEnabled
    /\ errorMessage = CameraBusyMsg /\ connectionStatus = "connected"

\* C11: when the audio-only retry fails too, start goes on with an empty local
\* stream, audio and video reported disabled and a transport created without
\* an error status; when that transport opens, the listener and the announcer
\* are started (each as far as its channel can be created) and their cleanups
\* are kept.
C11_ViewOnlyStillEnters ==
    [][\A g \in Runs :
          /\ (ViewOnlyFallback(g) /\ mounted)
                => (/\ localStream' = g /\ peer' = g
                    /\ videoTracks'[g] = <<>> /\ audioTrack'[g] = "none"
                    /\ ~isAudioEnabled' /\ ~isVideoEnabled'
                    /\ transport'[g] = "new"
                    /\ connectionStatus' # "error")
          /\ \A l, a \in BOOLEAN :
                (PeerOpen(g, l, a) /\ videoTracks[g] = <<>> /\ audioTrack[g] = "none")
                    => (/\ listener'[g] = l /\ announcer'[g] = a
                        /\ l => <<"listener", g>> \in cleanupFunctionsRef'
                        /\ a => <<"announcer", g>> \in cleanupFunctionsRef')]_vars

\* C11's case: a session that acquired no device has an open transport and a
\* running listener and announcer.
C11_Witness ==
    /\ mounted /\ run = 1 /\ localStream = 1 /\ peer = 1
    /\ videoTracks[1] = <<>> /\ audioTrack[1] = "none"
    /\ ~isAudioEnabled /\ ~isVideoEnabled
    /\ transport[1] = "open" /\ listener[1] /\ announcer[1]
    /\ connectionStatus = "connected"

\* C12: once the initial media request of the current run of the effect failed
\* with an error other than device-busy or aborted, that run has no transport,
\* no listener and no announcer, and the status shown is not connected.
C12_DeniedIsFatal ==
    \A g \in Runs :
        (mounted /\ run = g /\ initPc[g] = "failed")
            => (/\ transport[g] = "none"
                /\ ~listener[g] /\ ~announcer[g]
                /\ connectionStatus # "connected")

\* C13: a teardown stops the announcer and the listener, then closes the
\* connections of the Registry, then stops the tracks, then disposes the
\* transport: no track is stopped before the connections were closed.
C13_TeardownOrder ==
    (log # <<>> /\ log[1] = <<"cleanupFunctions", "">>)
        => (/\ StepIndex(log, <<"cleanupFunctions", "">>)
                   < StepIndex(log, <<"closeConnections", "">>)
            /\ StepIndex(log, <<"closeConnections", "">>)
                   < StepIndex(log, <<"stopTracks", "">>)
            /\ StepIndex(log, <<"stopTracks", "">>)
                   < StepIndex(log, <<"destroyPeer", "">>))

\* C14: when the close of one registered connection throws during leaveRoom,
\* the Registry is still emptied, and the tracks are still stopped.
C14_ThrowingCloseStillEmpties ==
    (log = LeaveThrowSteps)
        => (/\ Registered = {}
            /\ LiveTracks(localStream) = {}
            /\ LiveShareTracks(screenShareStream) = {})

\* C15: once the component was torn down by unmounting, whenever the transport's
\* open event arrives, no listener subscription is open and no announcer
\* interval is running.
C15_NoDiscoveryAfterTeardown ==
    ~mounted => \A g \in Runs : ~listener[g] /\ ~announcer[g]

\* C16: a media request of initPeer that resolves after the component was torn
\* down creates no transport, registers nothing and leaves no live local track.
C16_StartAfterTeardownIsNoOp ==
    [][\A g \in Runs :
          (~mounted /\ (AcquireAudioVideo(g) \/ AcquireAudioOnly(g) \/ ViewOnlyFallback(g)))
              => (/\ transport'[g] = "none"
                  /\ connections' = connections
                  /\ Range(videoTracks'[g]) \subseteq stoppedTracks'
                  /\ (audioTrack'[g] = "none" \/ g \in stoppedAudio'))]_vars

\* C17: a join announcement from a peer that is in the Registry originates no
\* call and leaves the Registry as it is.
C17_NoRedialOfRegisteredPeer ==
    [][\A g \in Runs, p \in Ids :
          (ListenerMessage(g, p) /\ connections[p] # 0)
              => (calls' = calls /\ connections' = connections)]_vars

\* C18: when the connection registered for P reports close, inbound or
\* outbound, P has no entry in the Registry and no remote stream afterwards.
C18_CloseRemovesEntry ==
    [][\A c \in 1..MaxCalls :
          (ConnClose(c) /\ mounted /\ connections[calls[c].peer] = c)
              => (/\ connections'[calls[c].peer] = 0
                  /\ \A e \in remoteStreams' : e[1] # calls[c].peer)]_vars

\* C19: when the connection registered for P reports an error, P's entry is
\* removed from the Registry and the participant count is decremented, not
\* below 1.
C19_ErrorRemovesEntry ==
    [][\A c \in 1..MaxCalls :
          (ConnError(c) /\ mounted /\ connections[calls[c].peer] = c)
              => (/\ connections'[calls[c].peer] = 0
                  /\ participantCount' = DecrementCount(participantCount))]_vars

\* The local stream s holds a track of a device that was acquired.
HasMedia(s) == s # NoStream /\ (audioTrack[s] # "none" \/ videoTracks[s] # <<>>)

\* C20: the listener originates a call only when the component's local stream
\* holds acquired media; a view-only session still answers an incoming call
\* with its empty stream and registers it.
C20_DialOnlyWithMedia ==
    [][\A g \in Runs, p \in Ids :
          /\ (ListenerMessage(g, p) /\ Len(calls') > Len(calls))
                => HasMedia(localStream)
          /\ (IncomingCall(g, p) /\ ~HasMedia(g))
                => (/\ connections'[p] = Len(calls')
                    /\ calls'[Len(calls')].stream = g
                    /\ calls'[Len(calls')].senders = <<>>)]_vars

\* C21: an error event of a transport that has opened sets the status to error
\* and the advisory message and changes nothing else: the Registry, the calls,
\* the remote streams, the participant count, the local stream, the transport,
\* the listener and the announcer stay as they were.
C21_TransportErrorOnlyMarks ==
    [][\A g \in Runs :
          (PeerError(g) /\ mounted /\ transport[g] \in {"open", "disconnected"})
              => (/\ connectionStatus' = "error"
                  /\ errorMessage' = "Connection error"
                  /\ UNCHANGED <<peer, localStream, remoteStreams, screenShareStream,
                                 isAudioEnabled, isVideoEnabled, participantCount,
                                 refs, effect, transport, discovery, calls, media,
                                 pending>>)]_vars

\* C21's case: the error arrived in a session with an open transport, a running
\* listener and a registered connection whose remote stream is shown.
C21_Witness ==
    /\ mounted /\ connectionStatus = "error" /\ errorMessage = "Connection error"
    /\ participantCount = 2
    /\ \E p \in Remotes : connections[p] # 0 /\ p \in RemoteIds
    /\ \E g \in Runs : transport[g] = "open" /\ listener[g] /\ announcer[g]

\* C22: the effect's cleanup leaves the resources of the session in the state
\* leaveRoom would leave them in when run from the same state: listener and
\* announcer stopped, the registered connections closed and the Registry
\* cleared, the local and screen-share tracks stopped, the transport disposed.
C22_TeardownPathsConverge ==
    [][Unmount
         => (/\ listener' = ListenerAfterCleanup
             /\ announcer' = AnnouncerAfterCleanup
             /\ calls' = CallsAfterClose(Registered \cup HeldBy(peer))
             /\ connections' = [p \in Ids |-> 0]
             /\ stoppedTracks' = VideoStoppedAfter(localStream)
             /\ stoppedAudio' = AudioStoppedAfter(localStream)
             /\ liveShares' = SharesAfterStop(screenShareStream)
             /\ transport' = TransportAfterDestroy(peer))]_vars

\* C23: when the open handler cannot create the listener's or the announcer's
\* channel, the status still becomes connected, no error message is set and
\* the Registry and its connections are untouched; a transport without a
\* listener still answers and registers an incoming call.
C23_ChannelFailureNotFatal ==
    [][\A g \in Runs :
          /\ \A l, a \in BOOLEAN :
                (PeerOpen(g, l, a) /\ ~(l /\ a) /\ mounted)
                    => (/\ connectionStatus' = "connected"
                        /\ errorMessage' = errorMessage
                        /\ connections' = connections /\ calls' = calls)
          /\ \A p \in Remotes :
                (IncomingCall(g, p) /\ ~listener[g])
                    => (/\ connections'[p] = Len(calls')
                        /\ calls'[Len(calls')].st = "open"
                        /\ connectionStatus' = connectionStatus)]_vars

\* C23's case: the first session opened without either channel and has
\* answered and registered a call.
C23_Witness ==
    /\ mounted /\ run = 1 /\ transport[1] = "open"
    /\ ~listener[1] /\ ~announcer[1] /\ cleanupFunctionsRef = {}
    /\ connectionStatus = "connected"
    /\ connections["B"] # 0 /\ calls[connections["B"]].run = 1

\* C24: when one Peer has dialled P and also answered a call from P, one of the
\* two connections is closed: no two live links to one identity, and the
\* participant count does not exceed 2 for the one remote peer.
C24_GlareLeavesOneLink ==
    \A c, d \in CallIds :
        (/\ calls[c].dir = "out" /\ calls[d].dir = "in"
         /\ calls[c].peer = calls[d].peer /\ calls[c].run = calls[d].run)
            => (/\ calls[c].st = "closed" \/ calls[d].st = "closed"
                /\ RemoteIds \subseteq {calls[c].peer} => participantCount <= 2)

\* C25: the status never returns to its initial value, and once it is error it
\* becomes neither connected nor disconnected.
C25_StatusMonotone ==
    [][/\ connectionStatus' = "connecting" => connectionStatus = "connecting"
       /\ connectionStatus = "error" => connectionStatus' = "error"]_vars

\* C26: the status becomes connected only in a step after which a transport is
\* open (its identity assigned); no outcome of a media request sets it.
C26_ConnectedOnlyWhenOpen ==
    [][(connectionStatus' = "connected" /\ connectionStatus # "connected")
         => \E g \in Runs : transport'[g] = "open"]_vars

\* C27: toggleAudio flips the reported audio state and the enabled flag of the
\* local stream's audio track, and nothing else: the tracks of every stream,
\* the Registry, the connections and their senders, the video state and the
\* status are unchanged and no media request is started.
C27_ToggleAudioOnlyFlipsFlag ==
    [][ToggleAudio
         => (/\ isAudioEnabled' = ~isAudioEnabled
             /\ \A g \in Runs :
                   audioTrack'[g] =
                       IF g = localStream /\ audioTrack[g] # "none"
                       THEN (IF isAudioEnabled THEN "disabled" ELSE "enabled")
                       ELSE audioTrack[g]
             /\ UNCHANGED <<videoTracks, stoppedTracks, stoppedAudio, nTracks, nShares,
                            liveShares, refs, calls, localStream, screenShareStream,
                            isVideoEnabled, isVideoLoading, connectionStatus,
                            participantCount, remoteStreams, transport, pending>>)]_vars

\* C27's case: the microphone was muted by toggleAudio while a registered
\* connection is open.
C27_Witness ==
    /\ mounted /\ localStream # NoStream /\ ~isAudioEnabled
    /\ audioTrack[localStream] = "disabled"
    /\ localStream \notin stoppedAudio
    /\ \E c \in Registered : calls[c].st = "open"

\* C28: no step of toggleVideo (on or off, its request resolved or rejected)
\* adds, removes, closes or replaces a connection or a Registry entry, and the
\* participant count is unchanged.
C28_ToggleVideoKeepsRegistry ==
    [][(ToggleVideoOn \/ VideoAcquired \/ VideoAcquireFailed \/ ToggleVideoOff)
         => (/\ connections' = connections
             /\ participantCount' = participantCount
             /\ remoteStreams' = remoteStreams
             /\ Len(calls') = Len(calls)
             /\ \A c \in CallIds :
                   /\ calls'[c].st = calls[c].st /\ calls'[c].peer = calls[c].peer
                   /\ calls'[c].dir = calls[c].dir /\ calls'[c].run = calls[c].run)]_vars

\* C28's case: toggleVideo off has just muted the sender of a registered live
\* connection.
C28_Witness ==
    /\ Len(log) > 1 /\ log[1] = ToggleOffStep /\ log[Len(log)][1] = "stop"
    /\ \E c \in Registered :
           /\ HasPeerConnection(c) /\ calls[c].senders # <<>>
           /\ \A i \in 1..Len(calls[c].senders) : calls[c].senders[i] = NoTrack

\* The calls that a step added for identity p, tagged as a screen-share and
\* carrying the display capture.
NewScreenCallsTo(p) ==
    {c \in (Len(calls) + 1)..Len(calls') :
        calls'[c].peer = p /\ calls'[c].isScreenShare /\ calls'[c].stream = ScreenMedia}

\* C29: when the display capture of toggleScreenShare resolves, exactly one new
\* call per identity of the Registry is originated, tagged as a screen-share and
\* carrying the capture, and the Registry is unchanged; when the capture is
\* rejected, the screen-share state is unchanged and no call is originated.
C29_ShareCallsEveryRegistered ==
    [][/\ ShareAcquired =>
            /\ connections' = connections
            /\ Len(calls') = Len(calls) + Cardinality(Registered)
            /\ \A p \in Ids : connections[p] # 0 => Cardinality(NewScreenCallsTo(p)) = 1
       /\ ShareFailed =>
            /\ calls' = calls /\ connections' = connections
            /\ isScreenSharing' = isScreenSharing
            /\ screenShareStream' = screenShareStream]_vars

\* Identity p has a camera connection in the Registry.
HasCameraEntry(p) == connections[p] # 0 /\ ~calls[connections[p]].isScreenShare

\* C30: an incoming call tagged as a screen-share from an identity that has a
\* camera connection in the Registry does not replace that entry, and the close
\* of a screen-share call removes no remote stream and does not change the
\* participant count.
C30_ScreenShareCallKeptDistinct ==
    [][/\ \A g \in Runs, p \in Remotes :
             (IncomingScreenShare(g, p) /\ HasCameraEntry(p))
                 => connections'[p] = connections[p]
       /\ \A c \in CallIds :
             (ConnClose(c) /\ calls[c].isScreenShare)
                 => /\ remoteStreams' = remoteStreams
                    /\ participantCount' = participantCount]_vars

\* C31: the onended callback of the capture leaves the screen share as an
\* explicit toggleScreenShare off would: every track of the stream stopped,
\* sharing and annotation off, the stream cleared.
C31_EndedEqualsToggleOff ==
    [][\A ss \in 1..MaxShares :
          (ShareEndedByUser(ss) /\ mounted /\ screenShareStream = ss)
              => /\ liveShares' = SharesAfterStop(ss)
                 /\ ~isScreenSharing' /\ ~isAnnotating'
                 /\ screenShareStream' = NoStream]_vars

\* C32: after toggleScreenShare off, no track of the screen-share stream is
\* live, the screen-share state is cleared, and no screen-share call that this
\* session originated is open.
C32_OffEndsShareCalls ==
    [][ToggleScreenShareOff
          => /\ \A tr \in liveShares' : tr[1] # screenShareStream
             /\ ~isScreenSharing' /\ ~isAnnotating' /\ screenShareStream' = NoStream
             /\ \A c \in 1..Len(calls') :
                   calls'[c].dir = "screen" => calls'[c].st # "open"]_vars

\* The session has dialled identity p.
Dialled(p) == \E c \in CallIds : calls[c].peer = p /\ calls[c].dir = "out"

\* C33: a session with media whose listener subscribed after B's first
\* announcement, and whose transport stays open, eventually receives one of B's
\* repeated announcements and acts on it by dialling B.
C33_LateListenerDiscovers ==
    (listener[1] /\ transport[1] = "open" /\ HasMedia(localStream))
        ~> (transport[1] # "open" \/ Dialled("B"))

\* C34: an announcement is published only after the transport's open event and
\* before teardown; the step that handles open publishes one; every
\* announcement carries the identity assigned to its session and action join.
C34_AnnouncedOnlyWhileUp ==
    [][\A g \in Runs :
          /\ SendAnnouncement(g)
                => /\ transport[g] \notin {"none", "new"}
                   /\ mounted
                   /\ log' = <<JoinAnnouncement(g)>>
          /\ \A listenOk \in BOOLEAN :
                PeerOpen(g, listenOk, TRUE)
                    => /\ mounted
                       /\ log' = <<JoinAnnouncement(g)>>
                       /\ announcer'[g]]_vars

StreamsOf(rs, q) == {e \in rs : e[1] = q}

C37_CountMatchesStreams ==
    participantCount = 1 + Cardinality(RemoteIds)

\* C38: the close event of a connection that a later connection to the same
\* identity superseded in the Registry leaves the registered connection and the
\* identity's remote stream in place.
C38_StaleCloseKeepsCurrent ==
    [][\A c \in 1..MaxCalls :
          (/\ ConnClose(c) /\ mounted
           /\ connections[calls[c].peer] # 0 /\ connections[calls[c].peer] # c)
              => /\ connections'[calls[c].peer] = connections[calls[c].peer]
                 /\ StreamsOf(remoteStreams', calls[c].peer)
                        = StreamsOf(remoteStreams, calls[c].peer)]_vars

\* C39: the timeout of a transient advisory clears the message when it is
\* still that advisory, and leaves any other message in place.
C39_TimerClearsOnlyOwnAdvisory ==
    [][\A msg \in {CameraOnMsg, CameraOffMsg} :
          (TimerFire(msg) /\ mounted)
              => /\ errorMessage # msg => errorMessage' = errorMessage
                 /\ errorMessage = msg => errorMessage' = ""]_vars

\* C39's case: the timeout of the camera-off advisory fired after the
\* transport's error message had replaced it, and that message is still shown.
C39_Witness ==
    /\ mounted /\ log = <<<<"timer", CameraOffMsg>>>>
    /\ errorMessage = "Connection error"

\* C40: the local stream never holds more than one video track, and while no
\* toggleVideo is in flight video is reported enabled exactly when the local
\* stream holds one video track.
C40_EnabledIffOneTrack ==
    (mounted /\ localStream # NoStream)
        => /\ Len(videoTracks[localStream]) <= 1
           /\ (~isVideoLoading /\ videoReq = 0)
                  => (isVideoEnabled <=> Len(videoTracks[localStream]) = 1)

====
